---- MODULE Spec2Model ----
(***************************************************************************)
(* Model of the fractal-gui rendering core: src/src/renderer.rs (Renderer, *)
(* its shader program lifecycle, paint and off-screen capture) and the     *)
(* call sites of src/src/app.rs that reach it through Arc<Mutex<Renderer>>.*)
(*                                                                         *)
(* The GL context (glow) is the environment.  It is modelled as a record   *)
(* `gl` of object tables; each glow call used by the source is an operator *)
(* gl_<name> that returns the next context and appends itself to gl.calls, *)
(* the list of calls made since the running Renderer operation began.      *)
(* Object creation may fail (the source unwraps it with expect/unwrap).    *)
(***************************************************************************)
EXTENDS Integers, Sequences, FiniteSets, TLC

\* ------------------------------------------------------------------ bounds
\* Sizes of the name pools the modelled GL context hands names out of.
MaxProgram == 2
MaxShader == 4
MaxTexture == 1
MaxFramebuffer == 1
MaxVertexArray == 1

ProgramIds == 1..MaxProgram
ShaderIds == 1..MaxShader
TextureIds == 1..MaxTexture
FramebufferIds == 1..MaxFramebuffer
VertexArrayIds == 1..MaxVertexArray

\* 0 is GL's "no object" name (None in glow).
NoObject == 0

\* ------------------------------------------------------------ shader text
SHADER_VERSION == "SHADER_VERSION"
MANDELBROT_FUNC == "MANDELBROT_FUNC"
JULIA_FUNC == "JULIA_FUNC"
\* include_str!("frag.glsl"): the shared preamble and structural body.
FRAG_GLSL == "frag.glsl"
VERTEX_SHADER_SOURCE == "vertex_shader_source"

\* Texts the user can type into the custom formula editor: one that
\* compiles and links, one the compiler rejects, one that compiles but
\* whose program does not link (iteration declared and never defined).
CUSTOM_OK == "custom_ok"
CUSTOM_SYNTAX_ERROR == "custom_syntax_error"
CUSTOM_UNRESOLVED == "custom_unresolved"
CustomTexts == {MANDELBROT_FUNC, CUSTOM_OK, CUSTOM_SYNTAX_ERROR, CUSTOM_UNRESOLVED}
Formulas == {MANDELBROT_FUNC, JULIA_FUNC} \cup CustomTexts
NoFormula == "none"

VERTEX_SHADER == "VERTEX_SHADER"
FRAGMENT_SHADER == "FRAGMENT_SHADER"

\* String concatenation, as a sequence of the pieces concatenated.
\* check_shader builds (SHADER_VERSION + frag.glsl) + f, create_program
\* builds SHADER_VERSION + (frag.glsl + f): the same text.
Concat(a, b) == a \o b
CheckShaderText(fractal_function) ==
    Concat(Concat(<<SHADER_VERSION>>, <<FRAG_GLSL>>), <<fractal_function>>)
FragmentShaderSource(fractal_function) == Concat(<<FRAG_GLSL>>, <<fractal_function>>)
ProgramShaderText(shader_source) == Concat(<<SHADER_VERSION>>, shader_source)

\* The driver's compiler and linker, as functions of the text given.
DriverCompiles(text) == text[Len(text)] # CUSTOM_SYNTAX_ERROR
DriverLinks(text) == text[Len(text)] # CUSTOM_UNRESOLVED
\* The info log the driver keeps for a failed compile or link.
DriverInfoLog(text) == <<"info_log", text[Len(text)]>>
\* The formula a fragment text carries (its last piece).
FormulaOf(text) == text[Len(text)]

\* ---------------------------------------------------------------- results
Ok(v) == [tag |-> "Ok", value |-> v]
Err(e) == [tag |-> "Err", value |-> e]
Panic(m) == [tag |-> "Panic", value |-> m]
NoResult == [tag |-> "None", value |-> <<>>]

Min(S) == CHOOSE x \in S : \A y \in S : x <= y

\* ------------------------------------------------------------- GL context
GlInit ==
    [ programs |-> {},                               \* live program names
      exe |-> [p \in ProgramIds |-> NoFormula],      \* formula of the linked executable
      attached |-> [p \in ProgramIds |-> {}],        \* shaders attached to a program
      shaders |-> {},                                \* live shader names
      source |-> [s \in ShaderIds |-> <<>>],         \* text given to a shader
      kind |-> [s \in ShaderIds |-> "none"],         \* VERTEX_SHADER or FRAGMENT_SHADER
      compiled |-> {},                               \* shaders whose last compile succeeded
      vertex_arrays |-> {},
      textures |-> {},
      tex_size |-> [t \in TextureIds |-> <<0, 0>>],
      framebuffers |-> {},
      color_attachment |-> [f \in FramebufferIds |-> NoObject],
      bound_framebuffer |-> NoObject,
      viewport |-> <<0, 0>>,
      draws |-> <<>>,                                \* draw calls of the running operation
      calls |-> <<>> ]                               \* glow calls of the running operation

Called(g, name, arg) == [g EXCEPT !.calls = Append(@, <<name, arg>>)]

\* Names gl.create_program() may return: any name not in use, or none.
FreshPrograms(g) == ProgramIds \ g.programs

\* gl.create_program(): p is the name the driver hands out (NoObject: Err).
gl_create_program(g, p) ==
    IF p = NoObject THEN Called(g, "create_program", NoObject)
    ELSE Called([g EXCEPT !.programs = @ \cup {p},
                          !.exe[p] = NoFormula,
                          !.attached[p] = {}], "create_program", p)

\* The name gl.create_shader() returns: the driver may fail (ok = FALSE or
\* no name left), else it hands out the smallest unused name.
NewShader(g, ok) ==
    IF ok /\ ShaderIds \ g.shaders # {} THEN Min(ShaderIds \ g.shaders) ELSE NoObject

gl_create_shader(g, shader_type, s) ==
    IF s = NoObject THEN Called(g, "create_shader", NoObject)
    ELSE Called([g EXCEPT !.shaders = @ \cup {s},
                          !.kind[s] = shader_type,
                          !.source[s] = <<>>,
                          !.compiled = @ \ {s}], "create_shader", s)

gl_shader_source(g, s, text) ==
    Called([g EXCEPT !.source[s] = text], "shader_source", s)

gl_compile_shader(g, s) ==
    Called([g EXCEPT !.compiled = IF DriverCompiles(g.source[s])
                                    THEN @ \cup {s} ELSE @ \ {s}],
           "compile_shader", s)

gl_get_shader_compile_status(g, s) == s \in g.compiled
gl_get_shader_info_log(g, s) == DriverInfoLog(g.source[s])

gl_delete_shader(g, s) ==
    Called([g EXCEPT !.shaders = @ \ {s},
                     !.compiled = @ \ {s},
                     !.kind[s] = "none",
                     !.source[s] = <<>>], "delete_shader", s)

gl_attach_shader(g, p, s) ==
    Called([g EXCEPT !.attached[p] = @ \cup {s}], "attach_shader", <<p, s>>)

gl_detach_shader(g, p, s) ==
    Called([g EXCEPT !.attached[p] = @ \ {s}], "detach_shader", <<p, s>>)

\* The fragment text among the sources of the shaders attached to p.
AttachedFragmentText(g, p) ==
    LET frag == {s \in g.attached[p] : g.kind[s] = FRAGMENT_SHADER}
    IN IF frag = {} THEN <<NoFormula>> ELSE g.source[Min(frag)]

\* gl.link_program(p): links iff every attached shader is compiled and the
\* driver resolves the fragment text.
gl_link_program(g, p) ==
    LET text == AttachedFragmentText(g, p)
        ok == g.attached[p] \subseteq g.compiled /\ DriverLinks(text)
                /\ FormulaOf(text) # NoFormula
    IN Called([g EXCEPT !.exe[p] = IF ok THEN FormulaOf(text) ELSE NoFormula],
              "link_program", p)

gl_get_program_link_status(g, p) == g.exe[p] # NoFormula
gl_get_program_info_log(g, p) == DriverInfoLog(AttachedFragmentText(g, p))

\* gl.delete_program(p): a name that is not a live program is a GL error
\* the source never reads; the context is left as it was.
gl_delete_program(g, p) ==
    Called(IF p \in g.programs
           THEN [g EXCEPT !.programs = @ \ {p},
                          !.exe[p] = NoFormula,
                          !.attached[p] = {}]
           ELSE g, "delete_program", p)

NewVertexArray(g, ok) ==
    IF ok /\ VertexArrayIds \ g.vertex_arrays # {}
    THEN Min(VertexArrayIds \ g.vertex_arrays) ELSE NoObject

gl_create_vertex_array(g, v) ==
    IF v = NoObject THEN Called(g, "create_vertex_array", NoObject)
    ELSE Called([g EXCEPT !.vertex_arrays = @ \cup {v}], "create_vertex_array", v)

gl_delete_vertex_array(g, v) ==
    Called([g EXCEPT !.vertex_arrays = @ \ {v}], "delete_vertex_array", v)

NewTexture(g, ok) ==
    IF ok /\ TextureIds \ g.textures # {} THEN Min(TextureIds \ g.textures) ELSE NoObject

gl_create_texture(g, t) ==
    IF t = NoObject THEN Called(g, "create_texture", NoObject)
    ELSE Called([g EXCEPT !.textures = @ \cup {t}, !.tex_size[t] = <<0, 0>>],
                "create_texture", t)

\* bind_texture + tex_image_2d + the two tex_parameter_i32 calls.
gl_tex_image_2d(g, t, width, height) ==
    Called([g EXCEPT !.tex_size[t] = <<width, height>>], "tex_image_2d", t)

gl_delete_texture(g, t) ==
    Called([g EXCEPT !.textures = @ \ {t}, !.tex_size[t] = <<0, 0>>],
           "delete_texture", t)

NewFramebuffer(g, ok) ==
    IF ok /\ FramebufferIds \ g.framebuffers # {}
    THEN Min(FramebufferIds \ g.framebuffers) ELSE NoObject

gl_create_framebuffer(g, f) ==
    IF f = NoObject THEN Called(g, "create_framebuffer", NoObject)
    ELSE Called([g EXCEPT !.framebuffers = @ \cup {f},
                          !.color_attachment[f] = NoObject], "create_framebuffer", f)

gl_bind_framebuffer(g, f) ==
    Called([g EXCEPT !.bound_framebuffer = f], "bind_framebuffer", f)

gl_framebuffer_texture_2d(g, t) ==
    Called(IF g.bound_framebuffer = NoObject THEN g
           ELSE [g EXCEPT !.color_attachment[g.bound_framebuffer] = t],
           "framebuffer_texture_2d", t)

gl_delete_framebuffer(g, f) ==
    Called([g EXCEPT !.framebuffers = @ \ {f},
                     !.color_attachment[f] = NoObject,
                     !.bound_framebuffer = IF @ = f THEN NoObject ELSE @],
           "delete_framebuffer", f)

gl_viewport(g, width, height) ==
    Called([g EXCEPT !.viewport = <<width, height>>], "viewport", <<width, height>>)

gl_read_pixels(g, width, height) == Called(g, "read_pixels", <<width, height>>)

\* ------------------------------------------------------- u32 arithmetic
\* Numbers wider than the checker's integers are little-endian sequences of
\* base-256 digits: a u32 is 4 digits, an exact product is WideDigits long.
Base == 2 ^ 8
U32Digits == 4
WideDigits == 2 * U32Digits + 1

RECURSIVE ToDigits(_, _)
ToDigits(n, k) == IF k = 0 THEN <<>> ELSE <<n % Base>> \o ToDigits(n \div Base, k - 1)

DigitAt(a, i) == IF i >= 1 /\ i <= Len(a) THEN a[i] ELSE 0

RECURSIVE ConvSum(_, _, _, _)
ConvSum(a, b, k, i) ==
    IF i > k THEN 0 ELSE DigitAt(a, i) * DigitAt(b, k + 1 - i) + ConvSum(a, b, k, i + 1)

RECURSIVE Carry(_, _, _, _, _)
Carry(a, b, k, n, c) ==
    IF k > n THEN <<>>
    ELSE LET t == ConvSum(a, b, k, 1) + c
         IN <<t % Base>> \o Carry(a, b, k + 1, n, t \div Base)

\* The exact product of two digit sequences, n digits long.
MulDigits(a, b, n) == Carry(a, b, 1, n, 0)

Low(a, k) == SubSeq(a, 1, k)
ZeroExtend(a, n) == [i \in 1..n |-> DigitAt(a, i)]
Overflows32(wide) == \E i \in (U32Digits + 1)..Len(wide) : wide[i] # 0

\* a * b on two u32: with overflow checks on (a debug build) an overflow
\* panics, with them off (a release build) the product wraps modulo 2^32.
u32_mul(a, b, overflow_checks) ==
    LET wide == MulDigits(a, b, 2 * U32Digits)
    IN IF Overflows32(wide) /\ overflow_checks
       THEN Panic("attempt to multiply with overflow")
       ELSE Ok(Low(wide, U32Digits))

\* (width * height * 4) as usize
PixelBufferLen(width, height, overflow_checks) ==
    LET wh == u32_mul(ToDigits(width, U32Digits), ToDigits(height, U32Digits),
                      overflow_checks)
    IN IF wh.tag = "Panic" THEN wh
       ELSE LET whc == u32_mul(wh.value, ToDigits(4, U32Digits), overflow_checks)
            IN IF whc.tag = "Panic" THEN whc
               ELSE Ok(ZeroExtend(whc.value, WideDigits))

\* width*height*4 over the integers.
ExactProduct(width, height) ==
    MulDigits(MulDigits(ToDigits(width, U32Digits), ToDigits(height, U32Digits),
                        WideDigits),
              ToDigits(4, U32Digits), WideDigits)

\* ------------------------------------------------------- f32 arithmetic
\* An f32 is a fraction <<n, d>> in lowest terms with d > 0, or one of the
\* IEEE specials <<1, 0>> (+inf), <<-1, 0>> (-inf), <<0, 0>> (NaN).
\* Rounding is not modelled: results are exact.
RECURSIVE Gcd(_, _)
Gcd(a, b) == IF b = 0 THEN a ELSE Gcd(b, a % b)
Abs(x) == IF x < 0 THEN -x ELSE x
Sign(x) == IF x > 0 THEN 1 ELSE IF x < 0 THEN -1 ELSE 0

FNorm(n, d) ==
    IF d = 0 THEN <<Sign(n), 0>>
    ELSE LET g == Gcd(Abs(n), Abs(d))
         IN <<(Sign(d) * n) \div g, Abs(d) \div g>>
FInt(k) == <<k, 1>>
FNaN == <<0, 0>>
FIsFinite(a) == a[2] # 0
FNeg(a) == <<-a[1], a[2]>>
FMul(a, b) == FNorm(a[1] * b[1], a[2] * b[2])
\* 1/a, with 1/0 = +inf
FRecip(a) ==
    IF a[1] > 0 THEN <<a[2], a[1]>>
    ELSE IF a[1] < 0 THEN <<-a[2], -a[1]>>
    ELSE IF a[2] = 0 THEN FNaN ELSE <<1, 0>>
FDiv(a, b) == FMul(a, FRecip(b))
FAdd(a, b) ==
    IF a[2] = 0 /\ b[2] = 0 THEN (IF a = b THEN a ELSE FNaN)
    ELSE FNorm(a[1] * b[2] + b[1] * a[2], a[2] * b[2])
FSub(a, b) == FAdd(a, FNeg(b))

\* egui::Vec2 / Pos2: a pair of f32, operations componentwise.
Vec(x, y) == <<FInt(x), FInt(y)>>
VZero == Vec(0, 0)
VAdd(a, b) == <<FAdd(a[1], b[1]), FAdd(a[2], b[2])>>
VSub(a, b) == <<FSub(a[1], b[1]), FSub(a[2], b[2])>>
VDiv(a, b) == <<FDiv(a[1], b[1]), FDiv(a[2], b[2])>>
VScale(a, k) == <<FMul(a[1], k), FMul(a[2], k)>>

\* f32 as u32: truncates, saturates, NaN gives 0.
AsU32(a) ==
    IF a[2] = 0 THEN (IF a[1] > 0 THEN 2147483647 + 2147483647 + 1 ELSE 0)
    ELSE IF a[1] <= 0 THEN 0 ELSE a[1] \div a[2]

\* --------------------------------------------------------------- Renderer
\* Fault: check_shader without its compile-status test (every text passes).
check_shader_unchecked(g, fractal_function, ok) ==
    LET shader == NewShader(g, ok)
        g1 == gl_create_shader(g, FRAGMENT_SHADER, shader)
    IN IF shader = NoObject
       THEN [gl |-> g1, result |-> Panic("Cannot create shader")]
       ELSE [gl |-> gl_delete_shader(
                        gl_compile_shader(
                            gl_shader_source(g1, shader,
                                             CheckShaderText(fractal_function)),
                            shader),
                        shader),
             result |-> Ok(<<>>)]

\* fn check_shader(&self, fractal_function) -> Result<(), String>
check_shader(g, fractal_function, ok) ==
    LET shader == NewShader(g, ok)
        g1 == gl_create_shader(g, FRAGMENT_SHADER, shader)
    IN IF shader = NoObject
       THEN [gl |-> g1, result |-> Panic("Cannot create shader")]
       ELSE LET g2 == gl_compile_shader(
                          gl_shader_source(g1, shader, CheckShaderText(fractal_function)),
                          shader)
            IN IF ~gl_get_shader_compile_status(g2, shader)
               THEN [gl |-> g2, result |-> Err(gl_get_shader_info_log(g2, shader))]
               ELSE [gl |-> gl_delete_shader(g2, shader), result |-> Ok(<<>>)]

\* let shader_sources = [(VERTEX_SHADER, ..), (FRAGMENT_SHADER, ..)]
ShaderSources(fractal_function) ==
    << <<VERTEX_SHADER, <<VERTEX_SHADER_SOURCE>> >>,
       <<FRAGMENT_SHADER, FragmentShaderSource(fractal_function)>> >>

\* for (shader_type, shader_source) in shader_sources { .. }, from entry i on;
\* oks[i] says whether the driver can create the i-th shader.
RECURSIVE CompileShaders(_, _, _, _, _, _)
CompileShaders(g, program, shader_sources, i, shaders, oks) ==
    IF i > Len(shader_sources) THEN [gl |-> g, result |-> Ok(shaders)]
    ELSE LET shader == NewShader(g, oks[i])
             g1 == gl_create_shader(g, shader_sources[i][1], shader)
         IN IF shader = NoObject
            THEN [gl |-> g1, result |-> Panic("Cannot create shader")]
            ELSE LET g2 == gl_compile_shader(
                               gl_shader_source(g1, shader,
                                   ProgramShaderText(shader_sources[i][2])),
                               shader)
                 IN IF ~gl_get_shader_compile_status(g2, shader)
                    THEN [gl |-> g2, result |-> Err(gl_get_shader_info_log(g2, shader))]
                    ELSE CompileShaders(gl_attach_shader(g2, program, shader), program,
                                        shader_sources, i + 1, Append(shaders, shader), oks)

\* for shader in shaders { detach_shader; delete_shader }
RECURSIVE DetachAndDelete(_, _, _, _)
DetachAndDelete(g, program, shaders, i) ==
    IF i > Len(shaders) THEN g
    ELSE DetachAndDelete(gl_delete_shader(gl_detach_shader(g, program, shaders[i]),
                                          shaders[i]),
                         program, shaders, i + 1)

\* fn create_program(gl, fractal_function) -> Result<Program, String>
\* program: the name gl.create_program() hands out (NoObject: it failed).
create_program(g, fractal_function, program, oks) ==
    LET g1 == gl_create_program(g, program)
    IN IF program = NoObject
       THEN [gl |-> g1, result |-> Panic("Cannot create program")]
       ELSE LET c == CompileShaders(g1, program, ShaderSources(fractal_function),
                                    1, <<>>, oks)
            IN IF c.result.tag # "Ok" THEN c
               ELSE LET g2 == gl_link_program(c.gl, program)
                    IN IF ~gl_get_program_link_status(g2, program)
                       THEN [gl |-> g2,
                             result |-> Err(gl_get_program_info_log(g2, program))]
                       ELSE [gl |-> DetachAndDelete(g2, program, c.result.value, 1),
                             result |-> Ok(program)]

\* Fault: the swap deletes the vertex array along with the old program.
swap_delete_old_and_vertex_array(g, r) ==
    gl_delete_vertex_array(gl_delete_program(g, r.program), r.vertex_array)

\* self.context.delete_program(self.program), in set_fractal_function
swap_delete_old(g, r) == gl_delete_program(g, r.program)

\* self.program = Self::create_program(..)?, in set_fractal_function
swap_assign(r, result) ==
    IF result.tag = "Ok" THEN [r EXCEPT !.program = result.value] ELSE r

\* pub fn destroy(&self)
destroy(g, r) == gl_delete_vertex_array(gl_delete_program(g, r.program), r.vertex_array)

\* The values paint uploads, by uniform name.
Uniforms(uniform_data) ==
    [ center |-> uniform_data.center,
      cycles |-> uniform_data.cycles,
      zoom |-> uniform_data.zoom,
      resolution |-> uniform_data.resolution,
      window_offset |-> uniform_data.window_offset,
      start_color |-> <<uniform_data.start_color.h, uniform_data.start_color.s,
                        uniform_data.start_color.v>>,
      end_color |-> <<uniform_data.end_color.h, uniform_data.end_color.s,
                      uniform_data.end_color.v>> ]
NoUniforms == [unset |-> TRUE]

\* The uniform_* calls of paint, in the order of lines 159-207, each with the
\* uniform's name and the values passed.
UniformCalls(uniform_data) ==
    LET u == Uniforms(uniform_data)
    IN << <<"uniform_2_f32", <<"center", u.center>> >>,
          <<"uniform_1_i32", <<"cycles", u.cycles>> >>,
          <<"uniform_1_f32", <<"zoom", u.zoom>> >>,
          <<"uniform_2_f32", <<"resolution", u.resolution>> >>,
          <<"uniform_2_f32", <<"window_offset", u.window_offset>> >>,
          <<"uniform_3_f32", <<"start_color", u.start_color>> >>,
          <<"uniform_3_f32", <<"end_color", u.end_color>> >> >>

\* pub fn paint(&self, uniform_data)
\* use_program on a name that is no linked live program is a GL error: no
\* program of the Renderer is bound, get_uniform_location finds nothing and
\* the uniform_* calls on None do nothing.
paint(g, r, uniform_data) ==
    LET usable == r.program \in g.programs /\ gl_get_program_link_status(g, r.program)
        g0 == Called(g, "paint", uniform_data)      \* the call itself, with its argument
        g1 == Called(g0, "use_program", r.program)
        g2 == [g1 EXCEPT !.calls = @ \o UniformCalls(uniform_data)]
        g3 == Called(g2, "bind_vertex_array", r.vertex_array)
        draw == [ program |-> IF usable THEN r.program ELSE NoObject,
                  formula |-> IF usable THEN g.exe[r.program] ELSE NoFormula,
                  uniforms |-> IF usable THEN Uniforms(uniform_data) ELSE NoUniforms,
                  vertex_array |-> IF r.vertex_array \in g.vertex_arrays
                                   THEN r.vertex_array ELSE NoObject,
                  first |-> 0,
                  count |-> 6,
                  framebuffer |-> g.bound_framebuffer ]
    IN Called([g3 EXCEPT !.draws = Append(@, draw)], "draw_arrays", 6)

\* render_to_buffer, lines 218-244: the texture to render into.
rtb_texture(g, width, height, ok) ==
    LET texture == NewTexture(g, ok)
        g1 == gl_create_texture(g, texture)
    IN IF texture = NoObject
       THEN [gl |-> g1, result |-> Panic("Failed to create texture for framebuffer")]
       ELSE [gl |-> gl_tex_image_2d(g1, texture, width, height), result |-> Ok(texture)]

\* render_to_buffer, lines 246-259: the framebuffer, bound, texture attached.
rtb_framebuffer(g, texture, ok) ==
    LET framebuffer == NewFramebuffer(g, ok)
        g1 == gl_create_framebuffer(g, framebuffer)
    IN IF framebuffer = NoObject
       THEN [gl |-> g1, result |-> Panic("Failed to create framebuffer")]
       ELSE [gl |-> gl_framebuffer_texture_2d(gl_bind_framebuffer(g1, framebuffer),
                                              texture),
             result |-> Ok(framebuffer)]

\* render_to_buffer, lines 261-265: assert!(check_framebuffer_status == COMPLETE)
rtb_assert_complete(g, complete) ==
    [gl |-> Called(g, "check_framebuffer_status", complete),
     result |-> IF complete THEN Ok(<<>>) ELSE Panic("Framebuffer is not complete")]

\* Fault: the caller's snapshot handed to paint as it came.
rtb_uniform_data_as_given(uniform_data) == uniform_data

\* UniformData { window_offset: (0., 0.).into(), ..uniform_data }
rtb_uniform_data(uniform_data) == [uniform_data EXCEPT !.window_offset = VZero]

\* render_to_buffer, lines 267-275: viewport, then paint.
rtb_paint(g, r, width, height, uniform_data) ==
    paint(gl_viewport(g, width, height), r, rtb_uniform_data(uniform_data))

\* render_to_buffer, lines 277-287: allocate the pixel buffer, read back.
rtb_read_pixels(g, width, height, overflow_checks) ==
    LET len == PixelBufferLen(width, height, overflow_checks)
    IN IF len.tag = "Panic" THEN [gl |-> g, result |-> len]
       ELSE [gl |-> gl_read_pixels(g, width, height), result |-> len]

\* Fault: the cleanup without delete_texture.
rtb_cleanup_keeps_texture(g, framebuffer, texture) ==
    gl_delete_framebuffer(gl_bind_framebuffer(g, NoObject), framebuffer)

\* render_to_buffer, lines 289-292: cleanup.
rtb_cleanup(g, framebuffer, texture) ==
    gl_delete_texture(gl_delete_framebuffer(gl_bind_framebuffer(g, NoObject),
                                            framebuffer),
                      texture)

\* pub fn new(gl) -> Self
RendererNew(g, program, oks, ok_vertex_array) ==
    LET c == create_program(g, MANDELBROT_FUNC, program, oks)
    IN IF c.result.tag # "Ok"
       THEN [gl |-> c.gl,
             result |-> Panic("The builtin mandelbrot shader should be okay")]
       ELSE LET vertex_array == NewVertexArray(c.gl, ok_vertex_array)
                g1 == gl_create_vertex_array(c.gl, vertex_array)
            IN IF vertex_array = NoObject
               THEN [gl |-> g1, result |-> Panic("unwrap on None")]
               ELSE [gl |-> g1,
                     result |-> Ok([program |-> c.result.value,
                                    vertex_array |-> vertex_array])]

\* -------------------------------------------------------------------- App
\* App::new: the UniformData the application starts with (zoom 0.2 = 1/5).
DefaultUniformData ==
    [ center |-> VZero,
      zoom |-> <<1, 5>>,
      resolution |-> VZero,
      window_offset |-> VZero,
      cycles |-> 100,
      start_color |-> [h |-> 1, s |-> 0, v |-> 1, a |-> 1],
      end_color |-> [h |-> 0, s |-> 0, v |-> 0, a |-> 1] ]

AppNew ==
    [ uniform_data |-> DefaultUniformData,
      fractal_type |-> "Mandelbrot",
      custom_fractal_function |-> MANDELBROT_FUNC,
      shader_error |-> <<>> ]                 \* <<>>: None, <<e>>: Some(e)

\* What one frame reports to the central panel, in points: the fractal
\* rectangle's size and top-left corner, the screen rectangle's left-bottom
\* corner, pixels_per_point, the drag delta, the pointer's latest position
\* (<<>>: None) and the zoom delta.
NoFrameInput ==
    [ rect_size |-> <<0, 0>>, left_top |-> <<0, 0>>, screen_left_bottom |-> <<0, 0>>,
      ppp |-> 1, drag_delta |-> <<0, 0>>, pointer |-> <<>>, zoom_delta |-> <<1, 1>> ]

\* Frames without drag, pointer or zoom.
FrameInputs ==
    { [NoFrameInput EXCEPT !.rect_size = <<4, 2>>, !.left_top = <<3, 5>>,
                           !.screen_left_bottom = <<0, 8>>, !.ppp = 2],
      [NoFrameInput EXCEPT !.rect_size = <<32768, 16384>>, !.left_top = <<3, 5>>,
                           !.screen_left_bottom = <<0, 16390>>, !.ppp = 2] }

\* Frames of the view transform: rectangles of positive and of zero area,
\* with and without drag, pointer and zoom.
ViewInputs ==
    { [NoFrameInput EXCEPT !.rect_size = rs, !.left_top = <<2, 1>>,
                           !.screen_left_bottom = <<0, 6>>, !.ppp = 2,
                           !.drag_delta = dd, !.pointer = pt, !.zoom_delta = zd] :
        rs \in {<<4, 2>>, <<0, 2>>, <<4, 0>>},
        dd \in {<<0, 0>>, <<2, -1>>},
        pt \in {<<>>, << <<3, 2>> >>},
        zd \in {<<1, 1>>, <<2, 1>>, <<1, 2>>} }

PositiveArea(in) == in.rect_size[1] > 0 /\ in.rect_size[2] > 0

\* lines 283-292: resolution, window_offset, and the pan center -= drag
pan_stage(uniform_data, in) ==
    LET rect_size == Vec(in.rect_size[1], in.rect_size[2])
        drag == VDiv(Vec(in.drag_delta[1], in.drag_delta[2]), rect_size)
    IN [uniform_data EXCEPT
            !.resolution = VScale(rect_size, FInt(in.ppp)),
            !.window_offset = VScale(Vec(in.left_top[1], in.left_top[2]), FInt(in.ppp)),
            !.center = VSub(@, drag)]

\* lines 295-297: screen_rect.left_bottom() - fractal_rect.left_bottom(), x *= -1
window_correction(in) ==
    LET d == VSub(Vec(in.screen_left_bottom[1], in.screen_left_bottom[2]),
                  Vec(in.left_top[1], in.left_top[2] + in.rect_size[2]))
    IN <<FMul(d[1], FInt(-1)), d[2]>>

\* lines 298-302: the closure screen_to_fractal_coords
screen_to_fractal_coords(pos, in, center) ==
    LET rect_size == Vec(in.rect_size[1], in.rect_size[2])
        q == VDiv(VSub(Vec(pos[1], pos[2]), window_correction(in)), rect_size)
    IN VAdd(VSub(q, <<<<1, 2>>, <<1, 2>>>>), center)

\* Fault: the center moved by pointer * zoom instead of pointer * (zoom - 1).
zoom_stage_whole_pointer(uniform_data, in) ==
    IF in.pointer = <<>> THEN uniform_data
    ELSE LET pointer == screen_to_fractal_coords(in.pointer[1], in, uniform_data.center)
         IN [uniform_data EXCEPT
                 !.zoom = FMul(@, in.zoom_delta),
                 !.center = VAdd(@, VScale(pointer, in.zoom_delta))]

\* lines 304-311: zoom about the pointer
zoom_stage(uniform_data, in) ==
    IF in.pointer = <<>> THEN uniform_data
    ELSE LET pointer == screen_to_fractal_coords(in.pointer[1], in, uniform_data.center)
         IN [uniform_data EXCEPT
                 !.zoom = FMul(@, in.zoom_delta),
                 !.center = VAdd(@, VScale(pointer, FSub(in.zoom_delta, FInt(1))))]

\* App::update, CentralPanel
central_panel(uniform_data, in) == zoom_stage(pan_stage(uniform_data, in), in)

\* The fragment shader's coordinate: zoom is applied in the shader, which
\* divides the view coordinate (pixel relative to the viewport, centred,
\* plus center) by zoom.
shader_fractal_coord(view_coord, zoom) == VScale(view_coord, FRecip(zoom))

\* Fault: the error display cleared whatever the swap returned.
shader_error_after_cleared(result) == <<>>

\* if let Err(error) = .. { shader_error = Some(error) } else { shader_error = None }
shader_error_after(result) == IF result.tag = "Err" THEN <<result.value>> ELSE <<>>

\* ------------------------------------------------------------------ state
VARIABLES
    gl,          \* the GL context
    renderer,    \* Renderer { program, vertex_array }
    app,         \* App fields
    lock,        \* holder of the Mutex<Renderer>: "none", "ui" or "cb"
    pc,          \* where each thread is: pc.ui, pc.cb
    ui,          \* the UI thread's running Renderer call
    cb,          \* the draw callback's captured UniformData
    exited,      \* on_exit has run
    last_ok,     \* formula of the last set_fractal_function that returned Ok
    last_custom_ok  \* the last custom text whose swap returned Ok ("none": none yet)

vars == <<gl, renderer, app, lock, pc, ui, cb, exited, last_ok, last_custom_ok>>

NoCall ==
    [ op |-> "none", origin |-> "none", fractal_function |-> NoFormula,
      width |-> 0, height |-> 0, uniform_data |-> DefaultUniformData,
      texture |-> NoObject, framebuffer |-> NoObject,
      input |-> NoFrameInput,
      result |-> NoResult,
      entry_renderer |-> [program |-> NoObject, vertex_array |-> NoObject],
      entry_gl |-> GlInit ]

\* The context with the per-operation logs cleared.
Quiet(g) == [g EXCEPT !.calls = <<>>, !.draws = <<>>]

\* The state after App::new, in a context that has handed out no name yet
\* (all names are alike there: the first program gets the smallest).
Init ==
        LET n == RendererNew(GlInit, Min(FreshPrograms(GlInit)), <<TRUE, TRUE>>, TRUE)
        IN /\ gl = Quiet(n.gl)
           /\ renderer = n.result.value
           /\ app = AppNew
           /\ lock = "none"
           /\ pc = [ui |-> "idle", cb |-> "idle"]
           /\ ui = NoCall
           /\ cb = DefaultUniformData
           /\ exited = FALSE
           /\ last_ok = MANDELBROT_FUNC
           /\ last_custom_ok = "none"

\* The process runs: it has neither exited nor died of a panic.
Running == ~exited /\ pc.ui # "panicked"

\* Fault: a call site that reaches the Renderer without waiting for the lock.
CanLock_unguarded(t) == TRUE

\* renderer.lock(): the guard is taken when no thread holds it.
CanLock(t) == lock = "none"

\* A call on the UI thread begins: the lock is taken for the whole statement.
BeginCall(call) ==
    /\ Running
    /\ pc.ui = "idle"
    /\ CanLock("ui")
    /\ lock' = "ui"
    /\ ui' = [call EXCEPT !.entry_renderer = renderer, !.entry_gl = gl]

\* A panic unwinds: the guard is dropped and the process dies.
PanicUi(g, result) ==
    /\ gl' = g
    /\ ui' = [ui EXCEPT !.result = result]
    /\ pc' = [pc EXCEPT !.ui = "panicked"]
    /\ lock' = "none"
    /\ UNCHANGED <<renderer, app, cb, exited, last_ok, last_custom_ok>>

\* ----------------------------------------------- App::update, side panel
\* radio Mandelbrot clicked: let _ = renderer.lock().set_fractal_function(MANDELBROT_FUNC)
ClickMandelbrot ==
    /\ BeginCall([NoCall EXCEPT !.op = "set_fractal_function", !.origin = "radio",
                                !.fractal_function = MANDELBROT_FUNC])
    /\ app' = [app EXCEPT !.fractal_type = "Mandelbrot"]
    /\ pc' = [pc EXCEPT !.ui = "sff_check"]
    /\ UNCHANGED <<gl, renderer, cb, exited, last_ok, last_custom_ok>>

\* radio Julia clicked
ClickJulia ==
    /\ BeginCall([NoCall EXCEPT !.op = "set_fractal_function", !.origin = "radio",
                                !.fractal_function = JULIA_FUNC])
    /\ app' = [app EXCEPT !.fractal_type = "Julia"]
    /\ pc' = [pc EXCEPT !.ui = "sff_check"]
    /\ UNCHANGED <<gl, renderer, cb, exited, last_ok, last_custom_ok>>

\* radio Custom: only the selection changes
ClickCustom ==
    /\ Running
    /\ pc.ui = "idle"
    /\ app.fractal_type # "Custom"
    /\ app' = [app EXCEPT !.fractal_type = "Custom"]
    /\ UNCHANGED <<gl, renderer, lock, pc, ui, cb, exited, last_ok, last_custom_ok>>

\* the custom formula editor changed: set_fractal_function(&custom_fractal_function)
EditCustom ==
    \E text \in CustomTexts :
        /\ app.fractal_type = "Custom"
        /\ text # app.custom_fractal_function
        /\ BeginCall([NoCall EXCEPT !.op = "set_fractal_function", !.origin = "edit",
                                    !.fractal_function = text])
        /\ app' = [app EXCEPT !.custom_fractal_function = text]
        /\ pc' = [pc EXCEPT !.ui = "sff_check"]
        /\ UNCHANGED <<gl, renderer, cb, exited, last_ok, last_custom_ok>>

\* "Take screenshot": render_to_buffer(resolution.x as u32, resolution.y as u32, ..)
TakeScreenshot ==
    /\ BeginCall([NoCall EXCEPT !.op = "render_to_buffer",
                                !.width = AsU32(app.uniform_data.resolution[1]),
                                !.height = AsU32(app.uniform_data.resolution[2]),
                                !.uniform_data = app.uniform_data])
    /\ pc' = [pc EXCEPT !.ui = "rtb_texture"]
    /\ UNCHANGED <<gl, renderer, app, cb, exited, last_ok, last_custom_ok>>

\* Largest numerator or denominator a frame of the view transform may leave
\* in center and zoom (keeps repeated zooming finite).
ViewLimit == 8

WithinViewLimit(uniform_data) ==
    \A a \in {uniform_data.center[1], uniform_data.center[2], uniform_data.zoom} :
        Abs(a[1]) <= ViewLimit /\ a[2] <= ViewLimit

\* App::update, central panel of one frame, on the inputs of the set given
FrameStep(inputs) ==
    \E in \in inputs :
        /\ Running
        /\ pc.ui = "idle"
        /\ WithinViewLimit(central_panel(app.uniform_data, in))
        /\ app' = [app EXCEPT !.uniform_data = central_panel(@, in)]
        /\ ui' = [NoCall EXCEPT !.op = "update", !.input = in,
                                !.uniform_data = app.uniform_data]
        /\ pc' = [pc EXCEPT !.ui = "frame_ret"]
        /\ UNCHANGED <<gl, renderer, lock, cb, exited, last_ok, last_custom_ok>>

Frame == FrameStep(FrameInputs)
FrameView == FrameStep(ViewInputs)

\* the frame's update is over
FrameReturn ==
    /\ pc.ui = "frame_ret"
    /\ ui' = NoCall
    /\ pc' = [pc EXCEPT !.ui = "idle"]
    /\ UNCHANGED <<gl, renderer, app, lock, cb, exited, last_ok, last_custom_ok>>

\* App::on_exit: renderer.lock().destroy()
OnExit ==
    /\ BeginCall([NoCall EXCEPT !.op = "destroy"])
    /\ pc' = [pc EXCEPT !.ui = "destroy_run"]
    /\ UNCHANGED <<gl, renderer, app, cb, exited, last_ok, last_custom_ok>>

\* ------------------------------------------ Renderer::set_fractal_function
\* self.check_shader(fractal_function)?
SffCheckShader ==
    /\ pc.ui = "sff_check"
    /\ \E ok \in BOOLEAN :
        LET c == check_shader(gl, ui.fractal_function, ok)
        IN CASE c.result.tag = "Panic" -> PanicUi(c.gl, c.result)
             [] c.result.tag = "Err" ->
                  /\ gl' = c.gl
                  /\ ui' = [ui EXCEPT !.result = c.result]
                  /\ pc' = [pc EXCEPT !.ui = "sff_ret"]
                  /\ UNCHANGED <<renderer, app, lock, cb, exited, last_ok, last_custom_ok>>
             [] OTHER ->
                  /\ gl' = c.gl
                  /\ pc' = [pc EXCEPT !.ui = "sff_delete"]
                  /\ UNCHANGED <<renderer, app, lock, ui, cb, exited, last_ok, last_custom_ok>>

\* self.context.delete_program(self.program)
SffDeleteProgram ==
    /\ pc.ui = "sff_delete"
    /\ gl' = swap_delete_old(gl, renderer)
    /\ pc' = [pc EXCEPT !.ui = "sff_create"]
    /\ UNCHANGED <<renderer, app, lock, ui, cb, exited, last_ok, last_custom_ok>>

\* self.program = Self::create_program(..)?; Ok(())
SffCreateProgram ==
    /\ pc.ui = "sff_create"
    /\ \E program \in FreshPrograms(gl) \cup {NoObject}, okv \in BOOLEAN, okf \in BOOLEAN :
        LET c == create_program(gl, ui.fractal_function, program, <<okv, okf>>)
        IN IF c.result.tag = "Panic" THEN PanicUi(c.gl, c.result)
           ELSE /\ gl' = c.gl
                /\ renderer' = swap_assign(renderer, c.result)
                /\ ui' = [ui EXCEPT !.result =
                             IF c.result.tag = "Ok" THEN Ok(<<>>) ELSE c.result]
                /\ last_ok' = IF c.result.tag = "Ok" THEN ui.fractal_function
                              ELSE last_ok
                /\ last_custom_ok' = IF c.result.tag = "Ok" /\ ui.origin = "edit"
                                     THEN ui.fractal_function
                                     ELSE last_custom_ok
                /\ pc' = [pc EXCEPT !.ui = "sff_ret"]
                /\ UNCHANGED <<app, lock, cb, exited>>

\* the call returns to App::update and the guard is dropped
SffReturn ==
    /\ pc.ui = "sff_ret"
    /\ app' = IF ui.origin = "edit"
              THEN [app EXCEPT !.shader_error = shader_error_after(ui.result)]
              ELSE app
    /\ gl' = Quiet(gl)
    /\ ui' = NoCall
    /\ lock' = "none"
    /\ pc' = [pc EXCEPT !.ui = "idle"]
    /\ UNCHANGED <<renderer, cb, exited, last_ok, last_custom_ok>>

\* ---------------------------------------------- Renderer::render_to_buffer
RtbTexture ==
    /\ pc.ui = "rtb_texture"
    /\ \E ok \in BOOLEAN :
        LET c == rtb_texture(gl, ui.width, ui.height, ok)
        IN IF c.result.tag = "Panic" THEN PanicUi(c.gl, c.result)
           ELSE /\ gl' = c.gl
                /\ ui' = [ui EXCEPT !.texture = c.result.value]
                /\ pc' = [pc EXCEPT !.ui = "rtb_framebuffer"]
                /\ UNCHANGED <<renderer, app, lock, cb, exited, last_ok, last_custom_ok>>

RtbFramebuffer ==
    /\ pc.ui = "rtb_framebuffer"
    /\ \E ok \in BOOLEAN :
        LET c == rtb_framebuffer(gl, ui.texture, ok)
        IN IF c.result.tag = "Panic" THEN PanicUi(c.gl, c.result)
           ELSE /\ gl' = c.gl
                /\ ui' = [ui EXCEPT !.framebuffer = c.result.value]
                /\ pc' = [pc EXCEPT !.ui = "rtb_assert"]
                /\ UNCHANGED <<renderer, app, lock, cb, exited, last_ok, last_custom_ok>>

\* The driver decides whether the framebuffer is complete.
RtbAssert ==
    /\ pc.ui = "rtb_assert"
    /\ \E complete \in BOOLEAN :
        LET c == rtb_assert_complete(gl, complete)
        IN IF c.result.tag = "Panic" THEN PanicUi(c.gl, c.result)
           ELSE /\ gl' = c.gl
                /\ pc' = [pc EXCEPT !.ui = "rtb_paint"]
                /\ UNCHANGED <<renderer, app, lock, ui, cb, exited, last_ok, last_custom_ok>>

RtbPaint ==
    /\ pc.ui = "rtb_paint"
    /\ gl' = rtb_paint(gl, renderer, ui.width, ui.height, ui.uniform_data)
    /\ pc' = [pc EXCEPT !.ui = "rtb_read"]
    /\ UNCHANGED <<renderer, app, lock, ui, cb, exited, last_ok, last_custom_ok>>

\* overflow_checks: how the build was compiled.
RtbReadPixels ==
    /\ pc.ui = "rtb_read"
    /\ \E overflow_checks \in BOOLEAN :
        LET c == rtb_read_pixels(gl, ui.width, ui.height, overflow_checks)
        IN IF c.result.tag = "Panic" THEN PanicUi(c.gl, c.result)
           ELSE /\ gl' = c.gl
                /\ ui' = [ui EXCEPT !.result = c.result]
                /\ pc' = [pc EXCEPT !.ui = "rtb_cleanup"]
                /\ UNCHANGED <<renderer, app, lock, cb, exited, last_ok, last_custom_ok>>

RtbCleanup ==
    /\ pc.ui = "rtb_cleanup"
    /\ gl' = rtb_cleanup(gl, ui.framebuffer, ui.texture)
    /\ pc' = [pc EXCEPT !.ui = "rtb_ret"]
    /\ UNCHANGED <<renderer, app, lock, ui, cb, exited, last_ok, last_custom_ok>>

\* the pixels go to save_image and the guard is dropped
RtbReturn ==
    /\ pc.ui = "rtb_ret"
    /\ gl' = Quiet(gl)
    /\ ui' = NoCall
    /\ lock' = "none"
    /\ pc' = [pc EXCEPT !.ui = "idle"]
    /\ UNCHANGED <<renderer, app, cb, exited, last_ok, last_custom_ok>>

\* ------------------------------------------------------- Renderer::destroy
DestroyRun ==
    /\ pc.ui = "destroy_run"
    /\ gl' = destroy(gl, renderer)
    /\ pc' = [pc EXCEPT !.ui = "destroy_ret"]
    /\ UNCHANGED <<renderer, app, lock, ui, cb, exited, last_ok, last_custom_ok>>

DestroyReturn ==
    /\ pc.ui = "destroy_ret"
    /\ exited' = TRUE
    /\ lock' = "none"
    /\ pc' = [pc EXCEPT !.ui = "idle"]
    /\ UNCHANGED <<gl, renderer, app, ui, cb, last_ok, last_custom_ok>>

\* ------------------------------------- the frame's PaintCallback (app.rs)
\* renderer.lock().paint(uniform_data), with the clone the frame captured
PaintBegin ==
    /\ Running
    /\ pc.cb = "idle"
    /\ CanLock("cb")
    /\ lock' = "cb"
    /\ cb' = app.uniform_data
    /\ pc' = [pc EXCEPT !.cb = "paint_run"]
    /\ UNCHANGED <<gl, renderer, app, ui, exited, last_ok, last_custom_ok>>

PaintRun ==
    /\ Running
    /\ pc.cb = "paint_run"
    /\ gl' = paint(gl, renderer, cb)
    /\ pc' = [pc EXCEPT !.cb = "paint_ret"]
    /\ UNCHANGED <<renderer, app, lock, ui, cb, exited, last_ok, last_custom_ok>>

PaintReturn ==
    /\ Running
    /\ pc.cb = "paint_ret"
    /\ gl' = Quiet(gl)
    /\ cb' = DefaultUniformData
    /\ lock' = "none"
    /\ pc' = [pc EXCEPT !.cb = "idle"]
    /\ UNCHANGED <<renderer, app, ui, exited, last_ok, last_custom_ok>>

Next ==
    \/ ClickMandelbrot
    \/ ClickJulia
    \/ ClickCustom
    \/ EditCustom
    \/ TakeScreenshot
    \/ Frame
    \/ FrameReturn
    \/ OnExit
    \/ SffCheckShader
    \/ SffDeleteProgram
    \/ SffCreateProgram
    \/ SffReturn
    \/ RtbTexture
    \/ RtbFramebuffer
    \/ RtbAssert
    \/ RtbPaint
    \/ RtbReadPixels
    \/ RtbCleanup
    \/ RtbReturn
    \/ DestroyRun
    \/ DestroyReturn
    \/ PaintBegin
    \/ PaintRun
    \/ PaintReturn

Spec == Init /\ [][Next]_vars

\* The view transform alone: frames of App::update over ViewInputs.
NextView ==
    \/ FrameView
    \/ FrameReturn

SpecView == Init /\ [][NextView]_vars

\* ----------------------------------------------------------------- claims
\* The Renderer's program handle names a live, linked program.
ProgramUsable ==
    /\ renderer.program \in gl.programs
    /\ gl_get_program_link_status(gl, renderer.program)

InSwap == ui.op = "set_fractal_function"
InCapture == ui.op = "render_to_buffer"

\* C1: after any sequence of set_fractal_function calls, whatever the outcome
\* of each, the program handle denotes a live, linked program: an attempt
\* that returned Ok made its new program the active one, an attempt that
\* returned Err left the previously active program live and unchanged.
C1_ProgramAlwaysLive ==
    /\ (Running /\ pc.ui \in {"idle", "sff_ret"}) => ProgramUsable
    /\ (pc.ui = "sff_ret" /\ ui.result.tag = "Err") =>
          /\ renderer = ui.entry_renderer
          /\ gl.exe[renderer.program] = ui.entry_gl.exe[renderer.program]

\* C2: inside set_fractal_function no delete_program call comes before the
\* link of the replacement program.
C2_DeleteAfterLink ==
    InSwap =>
        \A i \in DOMAIN gl.calls :
            gl.calls[i][1] = "delete_program" =>
                \E j \in 1..(i - 1) : gl.calls[j][1] = "link_program"

C4_CompilingFormulaSwaps ==
    /\ (pc.ui = "sff_ret" /\ DriverCompiles(CheckShaderText(ui.fractal_function)))
          => ui.result.tag = "Ok"
    /\ \A i \in DOMAIN gl.draws :
          /\ gl.draws[i].program = renderer.program
          /\ gl.draws[i].formula = last_ok

\* C5: at every instant at most one program object is created and not deleted.
C5_AtMostOneProgram == Running => Cardinality(gl.programs) <= 1

\* C6: after destroy() returns no GPU object created through the Renderer
\* remains allocated.
C6_DestroyFreesEverything ==
    exited =>
        /\ gl.programs = {}
        /\ gl.shaders = {}
        /\ gl.vertex_arrays = {}
        /\ gl.textures = {}
        /\ gl.framebuffers = {}

\* C7: on every exit path of render_to_buffer, a panic included, the
\* temporary texture and framebuffer are deleted and the framebuffer bound
\* before the call is bound again.
C7_CaptureExitsClean ==
    (InCapture /\ pc.ui \in {"rtb_ret", "panicked"}) =>
        /\ gl.textures = ui.entry_gl.textures
        /\ gl.framebuffers = ui.entry_gl.framebuffers
        /\ gl.bound_framebuffer = ui.entry_gl.bound_framebuffer

\* A thread is inside a Renderer operation.
UiInRenderer == pc.ui \notin {"idle", "panicked", "frame_ret"}
CbInRenderer == pc.cb # "idle"

\* C8: paint, set_fractal_function, render_to_buffer and destroy never
\* overlap: a thread inside one holds the lock, so at most one is executing,
\* and no paint runs between the deletion of the old program and the
\* assignment of the new one.
C8_RendererCallsExclusive ==
    /\ ~(UiInRenderer /\ CbInRenderer)
    /\ UiInRenderer => lock = "ui"
    /\ CbInRenderer => lock = "cb"
    /\ pc.ui = "sff_create" => pc.cb = "idle"

\* C8 witness: the UI thread is between the delete and the assignment while
\* the draw callback waits outside.
C8_Witness == pc.ui = "sff_create" /\ lock = "ui" /\ pc.cb = "idle"

\* C9: for width, height > 0 the buffer render_to_buffer returns is exactly
\* width*height*4 long, also when that product exceeds 32 bits.
C9_BufferLenIsProduct ==
    (pc.ui = "rtb_ret" /\ ui.width > 0 /\ ui.height > 0) =>
        /\ ui.result.tag = "Ok"
        /\ ui.result.value = ExactProduct(ui.width, ui.height)

\* The arguments of the paint calls the running operation has made.
PaintArgs == {gl.calls[i][2] : i \in {k \in DOMAIN gl.calls : gl.calls[k][1] = "paint"}}

\* C10: the paint render_to_buffer issues gets window_offset (0,0) whatever
\* the caller supplied, and the caller's value in every other field.
C10_CaptureUniforms ==
    (InCapture /\ pc.ui \in {"rtb_read", "rtb_cleanup", "rtb_ret"}) =>
        /\ Cardinality(PaintArgs) = 1
        /\ \A d \in PaintArgs :
              /\ d.window_offset = VZero
              /\ d.center = ui.uniform_data.center
              /\ d.zoom = ui.uniform_data.zoom
              /\ d.resolution = ui.uniform_data.resolution
              /\ d.cycles = ui.uniform_data.cycles
              /\ d.start_color = ui.uniform_data.start_color
              /\ d.end_color = ui.uniform_data.end_color

\* C10 witness: a capture has painted for a caller whose window_offset is
\* not (0,0).
C10_Witness ==
    /\ InCapture
    /\ pc.ui = "rtb_read"
    /\ ui.uniform_data.window_offset # VZero
    /\ Len(gl.draws) = 1

\* The frame whose update has just run, and the uniform data it started from.
InFrame == pc.ui = "frame_ret"

\* C11: a frame whose viewport has zero width or zero height leaves
\* uniform_data (center, zoom, resolution, window_offset) exactly as the
\* previous frame left it.
C11_ZeroAreaFrameRetainsState ==
    (InFrame /\ ~PositiveArea(ui.input)) => app.uniform_data = ui.uniform_data

\* The fractal coordinate under the frame's pointer for a given center and zoom.
CoordUnderPointer(center, zoom) ==
    shader_fractal_coord(screen_to_fractal_coords(ui.input.pointer[1], ui.input, center), zoom)

\* The case of C12: a positive-area viewport, a pointer, a finite center and
\* zoom > 0 before the zoom step, and zoom_delta > 0.
ZoomCase ==
    /\ InFrame
    /\ PositiveArea(ui.input)
    /\ ui.input.pointer # <<>>
    /\ ui.input.zoom_delta[1] > 0 /\ ui.input.zoom_delta[2] > 0
    /\ FIsFinite(ui.uniform_data.center[1]) /\ FIsFinite(ui.uniform_data.center[2])
    /\ ui.uniform_data.zoom[1] > 0 /\ ui.uniform_data.zoom[2] > 0

C13_NoShaderLeftAllocated ==
    (InSwap /\ pc.ui = "sff_ret") => gl.shaders \subseteq ui.entry_gl.shaders

\* The names of the GL calls the running operation has made, in order.
CallNames == [i \in DOMAIN gl.calls |-> gl.calls[i][1]]

\* The arguments of the calls of one name logged in a context, in order.
CallArgsOf(g, name) ==
    LET RECURSIVE Pick(_)
        Pick(i) == IF i > Len(g.calls) THEN <<>>
                   ELSE IF g.calls[i][1] = name THEN <<g.calls[i][2]>> \o Pick(i + 1)
                   ELSE Pick(i + 1)
    IN Pick(1)

\* The arguments of the running operation's calls of one name, in order.
CallArgs(name) == CallArgsOf(gl, name)

\* The calls of one paint, by name.
PaintCallNames ==
    <<"paint", "use_program", "uniform_2_f32", "uniform_1_i32", "uniform_1_f32",
      "uniform_2_f32", "uniform_2_f32", "uniform_3_f32", "uniform_3_f32",
      "bind_vertex_array", "draw_arrays">>

\* The calls of one render_to_buffer that returns, by name.
CaptureCallNames ==
    <<"create_texture", "tex_image_2d", "create_framebuffer", "bind_framebuffer",
      "framebuffer_texture_2d", "check_framebuffer_status", "viewport">>
    \o PaintCallNames
    \o <<"read_pixels", "bind_framebuffer", "delete_framebuffer", "delete_texture">>

\* The GPU objects allocated in a context.
Allocated(g) ==
    [programs |-> g.programs, shaders |-> g.shaders, vertex_arrays |-> g.vertex_arrays,
     textures |-> g.textures, framebuffers |-> g.framebuffers]

\* C14: a render_to_buffer that returns has, in this order, created the
\* texture, created and bound the framebuffer and attached the texture,
\* checked completeness, set the viewport to width x height, painted once
\* (one draw) into the temporary framebuffer, read the pixels, bound the
\* default framebuffer and deleted framebuffer and texture; the allocated GPU
\* objects and the Renderer's program and vertex array are those at entry.
C14_CaptureSequence ==
    (InCapture /\ pc.ui = "rtb_ret") =>
        /\ CallNames = CaptureCallNames
        /\ CallArgs("create_texture") = <<ui.texture>>
        /\ CallArgs("create_framebuffer") = <<ui.framebuffer>>
        /\ CallArgs("bind_framebuffer") = <<ui.framebuffer, NoObject>>
        /\ CallArgs("framebuffer_texture_2d") = <<ui.texture>>
        /\ CallArgs("check_framebuffer_status") = <<TRUE>>
        /\ CallArgs("viewport") = << <<ui.width, ui.height>> >>
        /\ Len(gl.draws) = 1
        /\ gl.draws[1].framebuffer = ui.framebuffer
        /\ ui.framebuffer # NoObject
        /\ CallArgs("read_pixels") = << <<ui.width, ui.height>> >>
        /\ CallArgs("delete_framebuffer") = <<ui.framebuffer>>
        /\ CallArgs("delete_texture") = <<ui.texture>>
        /\ gl.bound_framebuffer = NoObject
        /\ Allocated(gl) = Allocated(ui.entry_gl)
        /\ renderer = ui.entry_renderer

\* C14 witness: a capture of a positive size has run to its return.
C14_Witness ==
    /\ InCapture
    /\ pc.ui = "rtb_ret"
    /\ ui.width > 0 /\ ui.height > 0
    /\ ui.result.tag = "Ok"

\* Renderer::new on a fresh context, every creation succeeding.
Constructed == RendererNew(GlInit, Min(FreshPrograms(GlInit)), <<TRUE, TRUE>>, TRUE)

\* The process has not yet run destroy.
BeforeDestroy == ~exited /\ pc.ui # "destroy_ret"

\* C15: the vertex array is created once, by new, and deleted only by
\* destroy. Construction leaves exactly one program, the Mandelbrot one, and
\* one vertex array live; until destroy the Renderer's vertex array is that
\* one, live, and no operation creates or deletes a vertex array; destroy
\* deletes it once.
C15_VertexArrayLifetime ==
    /\ Constructed.result.tag = "Ok"
    /\ Constructed.gl.programs = {Constructed.result.value.program}
    /\ Constructed.gl.exe[Constructed.result.value.program] = MANDELBROT_FUNC
    /\ Constructed.gl.vertex_arrays = {Constructed.result.value.vertex_array}
    /\ CallArgsOf(Constructed.gl, "create_vertex_array")
          = <<Constructed.result.value.vertex_array>>
    /\ CallArgsOf(Constructed.gl, "delete_vertex_array") = <<>>
    /\ renderer.vertex_array = Constructed.result.value.vertex_array
    /\ CallArgs("create_vertex_array") = <<>>
    /\ BeforeDestroy =>
          /\ gl.vertex_arrays = {renderer.vertex_array}
          /\ CallArgs("delete_vertex_array") = <<>>
    /\ ~BeforeDestroy =>
          /\ gl.vertex_arrays = {}
          /\ CallArgs("delete_vertex_array") = <<renderer.vertex_array>>

\* C15 witness: a swap has replaced the program and is about to return, the
\* vertex array still the constructed one.
C15_Witness ==
    /\ InSwap
    /\ pc.ui = "sff_ret"
    /\ ui.result.tag = "Ok"
    /\ renderer.program # ui.entry_renderer.program
    /\ renderer.vertex_array \in gl.vertex_arrays

\* C16: paint binds the Renderer's current program, uploads the seven
\* uniforms with the snapshot's values, binds the vertex array and issues
\* exactly one 6-vertex triangle draw, with no other GL call: nothing is
\* created or deleted and the framebuffer bound stays the one drawn into.
C16_PaintEffect ==
    pc.cb = "paint_ret" =>
        /\ CallNames = PaintCallNames
        /\ CallArgs("use_program") = <<renderer.program>>
        /\ SubSeq(gl.calls, 3, 9) = UniformCalls(cb)
        /\ CallArgs("bind_vertex_array") = <<renderer.vertex_array>>
        /\ CallArgs("draw_arrays") = <<6>>
        /\ Len(gl.draws) = 1
        /\ gl.draws[1].program = renderer.program
        /\ gl.draws[1].uniforms = Uniforms(cb)
        /\ gl.draws[1].vertex_array = renderer.vertex_array
        /\ gl.draws[1].first = 0 /\ gl.draws[1].count = 6
        /\ gl.draws[1].framebuffer = gl.bound_framebuffer

\* The swap an edit of the custom text triggered is returning.
EditSwapReturns == InSwap /\ pc.ui = "sff_ret" /\ ui.origin = "edit"

\* C17: when the set_fractal_function an edit of the custom text triggered
\* returns, shader_error becomes Some(diagnostic) if it returned Err and None
\* if it returned Ok, and the application goes on running, after a failed
\* swap too; shader_error changes at no other step.
C17_ShaderErrorTracksResult ==
    [][ /\ EditSwapReturns =>
              /\ ui.result.tag \in {"Ok", "Err"}
              /\ ui.result.tag = "Err" => app'.shader_error = <<ui.result.value>>
              /\ ui.result.tag = "Ok" => app'.shader_error = <<>>
              /\ pc'.ui = "idle" /\ ~exited'
        /\ app'.shader_error # app.shader_error => EditSwapReturns ]_vars

\* C17 witness: an edit's swap has returned Err and the diagnostic is on
\* display, the application idle and running.
C17_Witness ==
    /\ Running
    /\ pc.ui = "idle"
    /\ app.shader_error # <<>>
    /\ app.fractal_type = "Custom"

\* C18: every delete_program, in set_fractal_function and in destroy, is
\* applied to a handle that is live at that moment, so no program handle is
\* deleted twice.
C18_DeleteProgramOnLiveHandle ==
    pc.ui \in {"sff_delete", "destroy_run"} => renderer.program \in gl.programs

\* The formula the active program runs (NoFormula: no linked live program).
ActiveFormula == IF ProgramUsable THEN gl.exe[renderer.program] ELSE NoFormula

\* C19: between UI actions the active program's formula is the selected
\* fractal type's: MANDELBROT_FUNC for Mandelbrot, JULIA_FUNC for Julia, and
\* for Custom the most recent custom text that swapped successfully.
C19_ActiveFormulaMatchesSelection ==
    (Running /\ pc.ui = "idle") =>
        /\ app.fractal_type = "Mandelbrot" => ActiveFormula = MANDELBROT_FUNC
        /\ app.fractal_type = "Julia" => ActiveFormula = JULIA_FUNC
        /\ (app.fractal_type = "Custom" /\ last_custom_ok # "none") =>
              ActiveFormula = last_custom_ok

====
